---- MODULE Spec2Model ----
(***************************************************************************)
(* MBufChain (src/object/mbuf.cc, src/object/include/object/mbuf.h): the   *)
(* chained paged buffer behind sockets and channels.  The chain is the     *)
(* list buffers_ of page-sized MBufs, the read cursor read_cursor_off_     *)
(* inside the front MBuf and the byte counter size_.  Every public         *)
(* operation is one action; the callers serialise them under the           *)
(* endpoint's lock, so an operation is atomic.  The physical page          *)
(* allocator (Pmm) and the user copy are the environment: an allocation    *)
(* may fail, and any single user copy may fault.                           *)
(***************************************************************************)
EXTENDS Integers, Sequences, FiniteSets

\* PAGE_SIZE of the platform, scaled down so that a page holds the header and
\* a payload of a few bytes.
PAGE_SIZE == 34

kHeaderSize == (8 * 2) + (4 * 2) + 8

kPayloadSize == PAGE_SIZE - kHeaderSize

\* 128 * MBuf::kPayloadSize in mbuf.h; scaled down to two payloads.
kSizeMax == 2 * kPayloadSize

ZX_OK == "ZX_OK"
ZX_ERR_SHOULD_WAIT == "ZX_ERR_SHOULD_WAIT"
ZX_ERR_INVALID_ARGS == "ZX_ERR_INVALID_ARGS"
ZX_ERR_OUT_OF_RANGE == "ZX_ERR_OUT_OF_RANGE"
\* The status a faulting user copy returns (the copy routines are not part of
\* the chain): an error distinct from the chain's own.
UserCopyError == "ZX_ERR_INVALID_ACCESS"

\* The user's memory: the byte at each address.  Neighbouring bytes differ,
\* so that a byte lost, doubled or out of place shows.
UserMemory(addr) == addr % 2

\* The addresses a caller passes as src: the two places user data starts at
\* that differ in what they hold.
UserAddresses == {0, 1}

\* The len bytes of user memory at address src.
UserBytes(src, len) == [i \in 1 .. len |-> UserMemory(src + i - 1)]

\* Lengths a caller asks for: up to one more than the chain can hold.
Lengths == 0 .. (kSizeMax + 1)

\* Which user copy of an operation faults, 0 when none does.  An operation
\* makes at most one copy for each MBuf it touches, and a chain holds at most
\* kSizeMax of them.
AllFaults == 0 .. kSizeMax

\* The faults the calls are made with: a write copies into the tail and into
\* at most kSizeMax / kPayloadSize new MBufs, and a read of a stream or of one
\* datagram out of as many MBufs.
Faults == 0 .. ((kSizeMax \div kPayloadSize) + 1)

\* The physical pages of the machine.  A chain never holds more than kSizeMax
\* MBufs, every MBuf in it carrying at least one unread byte.
Pages == 1 .. kSizeMax

VARIABLES
    mode,              \* the kind of socket the chain backs: "stream" or "datagram"
    buffers_,          \* MBufChain::buffers_: the MBufs of the chain, front first
    read_cursor_off_,  \* MBufChain::read_cursor_off_
    size_,             \* MBufChain::size_
    alive,             \* the chain has been constructed and not yet destroyed
    pmm_allocated,     \* the pages the Pmm has handed out and not got back
    pmm_bad_free,      \* the Pmm was handed a page to free that was not out
    last,              \* the last call: its status, *written or *actual, pages asked for
    wlog,              \* stream mode: the bytes WriteStream admitted, in order, and
    rlog,              \*   the bytes Read delivered; the prefix common to both is elided
    net,               \* stream mode: sum of *written of WriteStream - sum of *actual of Read
    dgrams             \* datagram mode: the datagrams written and not yet read, oldest first

vars == <<mode, buffers_, read_cursor_off_, size_, alive, pmm_allocated, pmm_bad_free,
          last, wlog, rlog, net, dgrams>>

Min(a, b) == IF a < b THEN a ELSE b

Front(s) == s[1]

Back(s) == s[Len(s)]

PushFront(s, e) == <<e>> \o s

Take(s, n) == SubSeq(s, 1, n)

Drop(s, n) == SubSeq(s, n + 1, Len(s))

IsPrefix(p, s) == Len(p) <= Len(s) /\ Take(s, Len(p)) = p

RECURSIVE SumLen(_)
SumLen(bufs) == IF bufs = <<>> THEN 0 ELSE Front(bufs).len_ + SumLen(Tail(bufs))

PagesOf(bufs) == {bufs[i].page_ : i \in 1 .. Len(bufs)}

\* MBuf::MBuf(page): len_ = 0, pkt_len_ = 0, data_ not yet written.
MBuf(page) == [len_ |-> 0, pkt_len_ |-> 0, page_ |-> page, data_ |-> <<>>]

rem(buf) == kPayloadSize - buf.len_

\* MBuf::NumBuffersForPayload(payload) = 1 + ((payload - 1) / kPayloadSize) in
\* size_t: for a payload of 0 the subtraction wraps, and the result is more
\* MBufs than the machine has pages.
NumBuffersForPayload(payload) ==
    IF payload = 0 THEN Cardinality(Pages) + 1
    ELSE 1 + ((payload - 1) \div kPayloadSize)

\* Pmm::Node().AllocPages(num, 0, &pages): num pages or none.  The pages come
\* lowest free address first.
RECURSIVE AllocPages(_, _)
AllocPages(free, num) ==
    IF num = 0 THEN <<>>
    ELSE LET p == CHOOSE q \in free : \A o \in free : q <= o
         IN  <<p>> \o AllocPages(free \ {p}, num - 1)

\* The loop of AllocMBufs: an MBuf is constructed in each page and pushed to
\* the front of the list.
RECURSIVE ConstructMBufs(_, _)
ConstructMBufs(pages, ret) ==
    IF pages = <<>> THEN ret
    ELSE ConstructMBufs(Tail(pages), PushFront(ret, MBuf(Front(pages))))

\* AllocMBufs that takes the pages although the Pmm refused: a variant that
\* StreamAllocFails tells from the code.
AllocMBufsRefusedAnyway(allocated, num, allocOk) ==
    IF Cardinality(Pages \ allocated) < num
    THEN [has_value |-> FALSE, list |-> <<>>, allocated |-> allocated]
    ELSE LET pages == AllocPages(Pages \ allocated, num)
         IN  [has_value |-> TRUE,
              list      |-> ConstructMBufs(pages, <<>>),
              allocated |-> allocated \cup {pages[i] : i \in 1 .. Len(pages)}]

\* MBufChain::AllocMBufs(num).  allocOk: the Pmm is willing to serve the request.
AllocMBufs(allocated, num, allocOk) ==
    IF ~allocOk \/ Cardinality(Pages \ allocated) < num
    THEN [has_value |-> FALSE, list |-> <<>>, allocated |-> allocated]
    ELSE LET pages == AllocPages(Pages \ allocated, num)
         IN  [has_value |-> TRUE,
              list      |-> ConstructMBufs(pages, <<>>),
              allocated |-> allocated \cup {pages[i] : i \in 1 .. Len(pages)}]

\* FreeMBufs that keeps the page of the last MBuf of the list: a variant that
\* PagesAccounted tells from the code.
FreeMBufsLeaky(allocated, bufs) ==
    [allocated |-> allocated \ PagesOf(Take(bufs, Len(bufs) - 1)),
     bad_free  |-> \/ ~(PagesOf(bufs) \subseteq allocated)
                   \/ Cardinality(PagesOf(bufs)) # Len(bufs)]

\* MBufChain::FreeMBufs(bufs): every page of the list goes back to the Pmm.
\* bad_free: a page of the list was not out, or is in the list twice.
FreeMBufs(allocated, bufs) ==
    [allocated |-> allocated \ PagesOf(bufs),
     bad_free  |-> \/ ~(PagesOf(bufs) \subseteq allocated)
                   \/ Cardinality(PagesOf(bufs)) # Len(bufs)]

\* copy_array_from_user(dst, copy_len) of the bytes of src from offset pos, the
\* destination being offset off of an MBuf's data_.
CopyFromUser(data, off, src, pos, copy_len) ==
    Take(data, off) \o UserBytes(src + pos, copy_len)

\* What an operation hands back: its status, *written or *actual, the bytes it
\* delivered to the user, the chain and the Pmm after it, and the number of
\* pages it asked the Pmm for.
Result(status, n, bytes, bufs, off, size, allocated, bad_free, requested) ==
    [status |-> status, n |-> n, bytes |-> bytes,
     buffers_ |-> bufs, read_cursor_off_ |-> off, size_ |-> size,
     allocated |-> allocated, bad_free |-> bad_free, requested |-> requested]

\* An operation that returns before it touches anything.
EarlyReturn(status) ==
    Result(status, 0, <<>>, buffers_, read_cursor_off_, size_, pmm_allocated, FALSE, 0)

\* The copy loop of WriteDatagram over the allocated MBufs: the i-th MBuf is
\* filled by the i-th user copy of the call.
RECURSIVE DatagramFill(_, _, _, _, _, _)
DatagramFill(bufs, i, pos, src, len, fault) ==
    IF i > Len(bufs) THEN [ok |-> TRUE, bufs |-> bufs]
    ELSE LET copy_len == Min(kPayloadSize, len - pos)
             buf      == bufs[i]
         IN  IF fault = i THEN [ok |-> FALSE, bufs |-> bufs]
             ELSE DatagramFill(
                      [bufs EXCEPT ![i] =
                          [buf EXCEPT !.data_ = CopyFromUser(buf.data_, 0, src, pos, copy_len),
                                      !.len_  = buf.len_ + copy_len]],
                      i + 1, pos + copy_len, src, len, fault)

\* DatagramAdmission without the check of len against the room left: a
\* variant that OverCapacityWrite tells from the code.
DatagramAdmissionNoWait(len) ==
    IF len = 0 THEN ZX_ERR_INVALID_ARGS
    ELSE IF len > kSizeMax THEN ZX_ERR_OUT_OF_RANGE
    ELSE ZX_OK

\* DatagramAdmission without the check of len against 0: a variant that
\* ZeroLengthDatagram tells from the code.
DatagramAdmissionNoZero(len) ==
    IF len > kSizeMax THEN ZX_ERR_OUT_OF_RANGE
    ELSE IF len + size_ > kSizeMax THEN ZX_ERR_SHOULD_WAIT
    ELSE ZX_OK

\* DatagramAdmission with the room left checked before the size of the
\* datagram: a variant that DatagramAdmissionOrdered tells from the code.
DatagramAdmissionRoomFirst(len) ==
    IF len = 0 THEN ZX_ERR_INVALID_ARGS
    ELSE IF len + size_ > kSizeMax THEN ZX_ERR_SHOULD_WAIT
    ELSE IF len > kSizeMax THEN ZX_ERR_OUT_OF_RANGE
    ELSE ZX_OK

\* The checks WriteDatagram makes of len before it allocates: the status it
\* returns at once, or ZX_OK to go on.
DatagramAdmission(len) ==
    IF len = 0 THEN ZX_ERR_INVALID_ARGS
    ELSE IF len > kSizeMax THEN ZX_ERR_OUT_OF_RANGE
    ELSE IF len + size_ > kSizeMax THEN ZX_ERR_SHOULD_WAIT
    ELSE ZX_OK

\* DatagramRollback that puts the MBufs on the socket instead of freeing
\* them: a variant that AtomicDatagramWrite tells from the code.
DatagramRollbackKeeps(bufs, allocated, num) ==
    Result(ZX_ERR_INVALID_ARGS, 0, <<>>, buffers_ \o bufs, read_cursor_off_,
           size_ + SumLen(bufs), allocated, FALSE, num)

\* DatagramRollback without FreeMBufs: a variant that DatagramFaultRollsBack
\* tells from the code.
DatagramRollbackLeaks(bufs, allocated, num) ==
    Result(ZX_ERR_INVALID_ARGS, 0, <<>>, buffers_, read_cursor_off_, size_,
           allocated, FALSE, num)

\* WriteDatagram when a user copy faulted: "Bad user buffer."  The allocated
\* MBufs bufs are freed and nothing is written.
DatagramRollback(bufs, allocated, num) ==
    LET freed == FreeMBufs(allocated, bufs)
    IN  Result(ZX_ERR_INVALID_ARGS, 0, <<>>, buffers_, read_cursor_off_, size_,
               freed.allocated, freed.bad_free, num)

\* DatagramSplice without "bufs.front().pkt_len_ = len": a variant that
\* WholeDatagrams tells from the code.
DatagramSpliceNoLen(bufs, allocated, len, num) ==
    Result(ZX_OK, len, <<>>, buffers_ \o bufs, read_cursor_off_, size_ + len, allocated,
           FALSE, num)

\* WriteDatagram when every copy succeeded: "Put it on the socket."
DatagramSplice(bufs, allocated, len, num) ==
    Result(ZX_OK, len, <<>>, buffers_ \o [bufs EXCEPT ![1].pkt_len_ = len],
           read_cursor_off_, size_ + len, allocated, FALSE, num)

\* WriteDatagram from the copy loop on, alloc_bufs being what AllocMBufs returned.
DatagramCopy(alloc_bufs, filled, len, num) ==
    IF ~filled.ok
    THEN DatagramRollback(filled.bufs, alloc_bufs.allocated, num)
    ELSE DatagramSplice(filled.bufs, alloc_bufs.allocated, len, num)

\* WriteDatagram from the allocation on.
DatagramAlloc(alloc_bufs, src, len, fault, num) ==
    IF ~alloc_bufs.has_value
    THEN Result(ZX_ERR_SHOULD_WAIT, 0, <<>>, buffers_, read_cursor_off_, size_,
                pmm_allocated, FALSE, num)
    ELSE DatagramCopy(alloc_bufs, DatagramFill(alloc_bufs.list, 1, 0, src, len, fault),
                      len, num)

\* MBufChain::WriteDatagram(src, len, written).
WriteDatagram(src, len, allocOk, fault) ==
    IF DatagramAdmission(len) # ZX_OK THEN EarlyReturn(DatagramAdmission(len))
    ELSE DatagramAlloc(AllocMBufs(pmm_allocated, NumBuffersForPayload(len), allocOk),
                       src, len, fault, NumBuffersForPayload(len))

\* write_buffer without "size_ += copy_len": a variant that
\* StreamConservation tells from the code.
write_bufferKeepsSize(buf, src, len, pos, size, faults) ==
    LET copy_len == Min(rem(buf), len - pos)
    IN  IF faults
        THEN [status |-> UserCopyError, buf |-> buf, pos |-> pos, size_ |-> size]
        ELSE [status |-> ZX_OK,
              buf    |-> [buf EXCEPT !.data_ = CopyFromUser(buf.data_, buf.len_, src, pos,
                                                            copy_len),
                                      !.len_  = buf.len_ + copy_len],
              pos    |-> pos + copy_len,
              size_  |-> size]

\* The lambda write_buffer of WriteStream, applied to buf when pos of the len
\* bytes are written and size_ is size: the copy faults, or buf takes copy_len
\* more bytes and pos and size_ advance.
write_buffer(buf, src, len, pos, size, faults) ==
    LET copy_len == Min(rem(buf), len - pos)
    IN  IF faults
        THEN [status |-> UserCopyError, buf |-> buf, pos |-> pos, size_ |-> size]
        ELSE [status |-> ZX_OK,
              buf    |-> [buf EXCEPT !.data_ = CopyFromUser(buf.data_, buf.len_, src, pos,
                                                            copy_len),
                                      !.len_  = buf.len_ + copy_len],
              pos    |-> pos + copy_len,
              size_  |-> size + copy_len]

\* StreamReturn that returns ZX_OK whatever pos is: a variant that
\* StreamShouldWait tells from the code.
StreamReturnOk(chain, size, pos, allocated, requested) ==
    Result(ZX_OK, pos, <<>>, chain, read_cursor_off_, size, allocated, FALSE, requested)

\* The end of WriteStream: *written = pos.
StreamReturn(chain, size, pos, allocated, requested) ==
    Result(IF pos = 0 THEN ZX_ERR_SHOULD_WAIT ELSE ZX_OK, pos, <<>>, chain,
           read_cursor_off_, size, allocated, FALSE, requested)

RECURSIVE StreamFill(_, _, _, _, _, _, _, _, _, _)
\* StreamStep without FreeMBufs when the copy faults: a variant that
\* StreamWriteFault tells from the code.
StreamStepLeaks(w, bufs, chain, size, allocated, src, len, pos, calls, fault, requested) ==
    IF w.status # ZX_OK
    THEN Result(w.status, pos, <<>>, chain, read_cursor_off_, size, allocated, FALSE,
                requested)
    ELSE StreamFill(Tail(bufs), Append(chain, w.buf), w.size_, allocated, src, len,
                    w.pos, calls + 1, fault, requested)

\* StreamStep that appends the MBuf whose copy faulted and frees the others:
\* a variant that NoEmptyMBuf tells from the code.
StreamStepKeepsFaulted(w, bufs, chain, size, allocated, src, len, pos, calls, fault, requested) ==
    IF w.status # ZX_OK
    THEN LET freed == FreeMBufs(allocated, Tail(bufs))
         IN  Result(w.status, pos, <<>>, Append(chain, w.buf), read_cursor_off_, size,
                    freed.allocated, freed.bad_free, requested)
    ELSE StreamFill(Tail(bufs), Append(chain, w.buf), w.size_, allocated, src, len,
                    w.pos, calls + 1, fault, requested)

\* One turn of the loop of WriteStream over the allocated MBufs, w being what
\* write_buffer made of the front of bufs.
StreamStep(w, bufs, chain, size, allocated, src, len, pos, calls, fault, requested) ==
    IF w.status # ZX_OK
    THEN LET freed == FreeMBufs(allocated, bufs)
         IN  Result(w.status, pos, <<>>, chain, read_cursor_off_, size,
                    freed.allocated, freed.bad_free, requested)
    ELSE StreamFill(Tail(bufs), Append(chain, w.buf), w.size_, allocated, src, len,
                    w.pos, calls + 1, fault, requested)

\* The loop of WriteStream over the newly allocated MBufs: the front of bufs
\* is filled and then moved to the back of the chain.  calls: the user copies
\* the call has made so far.
StreamFill(bufs, chain, size, allocated, src, len, pos, calls, fault, requested) ==
    IF bufs = <<>> THEN StreamReturn(chain, size, pos, allocated, requested)
    ELSE StreamStep(write_buffer(Front(bufs), src, len, pos, size, fault = calls + 1),
                    bufs, chain, size, allocated, src, len, pos, calls, fault, requested)

\* WriteStream once AllocMBufs has returned bufs.
StreamAllocated(bufs, chain, size, src, len, pos, calls, fault, num) ==
    IF bufs.has_value
    THEN StreamFill(bufs.list, chain, size, bufs.allocated, src, len, pos, calls, fault, num)
    ELSE StreamReturn(chain, size, pos, pmm_allocated, num)

\* The second half of WriteStream: "See if we need to allocate additional buffers."
StreamAlloc(chain, size, src, len, pos, calls, allocOk, fault) ==
    IF pos # len
    THEN StreamAllocated(AllocMBufs(pmm_allocated, NumBuffersForPayload(len - pos), allocOk),
                         chain, size, src, len, pos, calls, fault,
                         NumBuffersForPayload(len - pos))
    ELSE StreamReturn(chain, size, pos, pmm_allocated, 0)

\* The first half of WriteStream, w being what write_buffer made of the tail.
StreamTail(w, src, len, allocOk, fault) ==
    IF w.status # ZX_OK
    THEN Result(w.status, 0, <<>>, buffers_, read_cursor_off_, size_, pmm_allocated, FALSE, 0)
    ELSE StreamAlloc([buffers_ EXCEPT ![Len(buffers_)] = w.buf], w.size_, src, len, w.pos, 1,
                     allocOk, fault)

\* CapLen that caps nothing: a variant that SizeWithinCapacity tells from
\* the code.
CapLenNone(len) == len

\* CapLen that also caps len by the payload of one MBuf: a variant that
\* StreamWriteOk tells from the code.
CapLenOnePayload(len) == Min(Min(kSizeMax - size_, len), kPayloadSize)

\* "Cap len by the max we are allowed to write."
CapLen(len) == Min(kSizeMax - size_, len)

\* WriteStream that goes to new MBufs without filling the tail first: a
\* variant that StreamMBufsFull tells from the code.
WriteStreamNoTail(src, len, allocOk, fault) ==
    StreamAlloc(buffers_, size_, src, CapLen(len), 0, 0, allocOk, fault)

\* MBufChain::WriteStream(src, len, written).
WriteStream(src, len, allocOk, fault) ==
    IF buffers_ # <<>> /\ rem(Back(buffers_)) > 0
    THEN StreamTail(write_buffer(Back(buffers_), src, CapLen(len), 0, size_, fault = 1),
                    src, CapLen(len), allocOk, fault)
    ELSE StreamAlloc(buffers_, size_, src, CapLen(len), 0, 0, allocOk, fault)

\* CopyToUser from the start of the MBuf whatever the read cursor: a variant
\* that StreamFifo tells from the code.
CopyToUserFromStart(buf, read_off, copy_len) == SubSeq(buf.data_, 1, copy_len)

\* copy_array_to_user(src, copy_len) with src = buf.data_ + read_off: the
\* bytes the user gets.
CopyToUser(buf, read_off, copy_len) ==
    SubSeq(buf.data_, read_off + 1, read_off + copy_len)

\* One turn of the copy loop of ReadHelper up to "if constexpr": the copy out
\* of the MBuf at iter, and pos.
ReadCopy(st, buf, copy_len, copy_succeeded) ==
    [st EXCEPT !.pos    = IF copy_succeeded THEN st.pos + copy_len ELSE st.pos,
               !.status = IF copy_succeeded THEN ZX_OK ELSE UserCopyError,
               !.bytes  = IF copy_succeeded
                          THEN st.bytes \o CopyToUser(buf, st.read_off, copy_len)
                          ELSE st.bytes,
               !.calls  = st.calls + 1]

\* PeekAdvance without "read_off = 0": a variant that PeekSameAsRead tells
\* from the code.
PeekAdvanceKeepsOffset(st) == [st EXCEPT !.iter = st.iter + 1]

\* The rest of the turn when T is const: "read_off = 0; ++iter".
PeekAdvance(st) == [st EXCEPT !.read_off = 0, !.iter = st.iter + 1]

\* ReadAdvance that leaves an MBuf read to its end in the chain unless
\* datagram is set: a variant that EmptyIffNoMBuf tells from the code.
ReadAdvanceKeepsEmpty(st, buf, copy_len, copy_succeeded, datagram) ==
    LET read_off == IF copy_succeeded THEN st.read_off + copy_len ELSE st.read_off
        size     == IF copy_succeeded THEN st.size_ - copy_len ELSE st.size_
    IN  IF datagram
        THEN [st EXCEPT !.size_     = size - (buf.len_ - read_off),
                        !.free_list = PushFront(st.free_list, Front(st.buffers_)),
                        !.buffers_  = Tail(st.buffers_),
                        !.iter      = 1,
                        !.read_off  = 0]
        ELSE [st EXCEPT !.read_off = read_off, !.size_ = size,
                        !.iter = IF read_off = buf.len_ THEN Len(st.buffers_) + 1 ELSE st.iter]

\* ReadAdvance without "size_ -= (iter->len_ - read_off)" for a datagram: a
\* variant that SizeIsSumOfLen tells from the code.
ReadAdvanceKeepsRest(st, buf, copy_len, copy_succeeded, datagram) ==
    LET read_off == IF copy_succeeded THEN st.read_off + copy_len ELSE st.read_off
        size     == IF copy_succeeded THEN st.size_ - copy_len ELSE st.size_
    IN  IF read_off = buf.len_ \/ datagram
        THEN [st EXCEPT !.size_     = size,
                        !.free_list = PushFront(st.free_list, Front(st.buffers_)),
                        !.buffers_  = Tail(st.buffers_),
                        !.iter      = 1,
                        !.read_off  = 0]
        ELSE [st EXCEPT !.read_off = read_off, !.size_ = size]

\* The rest of the turn when T is not const: the cursor and size_ advance by
\* what was copied, and an MBuf read to its end, or any MBuf of a datagram,
\* leaves the chain for the free_list.
ReadAdvance(st, buf, copy_len, copy_succeeded, datagram) ==
    LET read_off == IF copy_succeeded THEN st.read_off + copy_len ELSE st.read_off
        size     == IF copy_succeeded THEN st.size_ - copy_len ELSE st.size_
    IN  IF read_off = buf.len_ \/ datagram
        THEN [st EXCEPT !.size_     = IF datagram THEN size - (buf.len_ - read_off) ELSE size,
                        !.free_list = PushFront(st.free_list, Front(st.buffers_)),
                        !.buffers_  = Tail(st.buffers_),
                        !.iter      = 1,
                        !.read_off  = 0]
        ELSE [st EXCEPT !.read_off = read_off, !.size_ = size]

\* The copy loop of ReadHelper.  st is the loop's state: pos, the list and
\* size_ of the chain, iter (an index into the list), the cached read_off, the
\* free_list, status, the bytes copied out and the user copies made.
RECURSIVE ReadLoop(_, _, _, _, _)
ReadTurn(st, buf, copy_len, copy_succeeded, is_const, len, datagram, fault) ==
    IF is_const
    THEN ReadLoop(PeekAdvance(ReadCopy(st, buf, copy_len, copy_succeeded)),
                  is_const, len, datagram, fault)
    ELSE ReadLoop(ReadAdvance(ReadCopy(st, buf, copy_len, copy_succeeded), buf, copy_len,
                              copy_succeeded, datagram),
                  is_const, len, datagram, fault)

ReadLoop(st, is_const, len, datagram, fault) ==
    IF ~(st.pos < len /\ st.iter <= Len(st.buffers_) /\ st.status = ZX_OK) THEN st
    ELSE ReadTurn(st, st.buffers_[st.iter],
                  Min(st.buffers_[st.iter].len_ - st.read_off, len - st.pos),
                  fault # st.calls + 1, is_const, len, datagram, fault)

\* DrainLoop that drains nothing: a variant that DatagramReadFault tells from
\* the code.
DrainLoopNone(st) == st

\* "Drain any leftover mbufs in the datagram packet": the loop over the front
\* MBufs whose pkt_len_ is 0.
RECURSIVE DrainLoop(_)
DrainLoop(st) ==
    IF st.buffers_ # <<>> /\ Front(st.buffers_).pkt_len_ = 0
    THEN LET cur == Front(st.buffers_)
         IN  DrainLoop([st EXCEPT !.buffers_  = Tail(st.buffers_),
                                  !.size_     = st.size_ - (cur.len_ - st.read_off),
                                  !.free_list = PushFront(st.free_list, cur),
                                  !.read_off  = 0])
    ELSE st

\* update_cursor that stores the cached read_off for a const chain too: a
\* variant that PeekNeverMutates tells from the code.
update_cursorAlways(is_const, read_off) == read_off

\* The deferred update_cursor of ReadHelper: read_cursor_off_ when it has run.
update_cursor(is_const, read_off) == IF is_const THEN read_cursor_off_ ELSE read_off

\* The end of ReadHelper, st being the state the loops left: the free_list
\* goes to FreeMBufs, update_cursor stores the cached read_off unless T is
\* const, and *actual = pos.
ReadReturn(st, is_const) ==
    LET freed == IF ~is_const /\ st.free_list # <<>>
                 THEN FreeMBufs(pmm_allocated, st.free_list)
                 ELSE [allocated |-> pmm_allocated, bad_free |-> FALSE]
    IN  Result(st.status, st.pos, st.bytes, st.buffers_, update_cursor(is_const, st.read_off),
               st.size_, freed.allocated, freed.bad_free, 0)

\* MBufChain::ReadHelper(chain, dst, len, datagram, actual); is_const: T is
\* const MBufChain (Peek), else MBufChain (Read).
ReadHelper(is_const, len0, datagram, fault) ==
    IF size_ = 0 THEN EarlyReturn(ZX_OK)
    ELSE
      LET len == IF datagram /\ len0 > Front(buffers_).pkt_len_
                 THEN Front(buffers_).pkt_len_ ELSE len0
          st0 == [pos |-> 0, iter |-> 1, read_off |-> read_cursor_off_,
                  buffers_ |-> buffers_, size_ |-> size_, free_list |-> <<>>,
                  status |-> ZX_OK, bytes |-> <<>>, calls |-> 0]
      IN  IF ~is_const /\ datagram
          THEN ReadReturn(DrainLoop(ReadLoop(st0, is_const, len, datagram, fault)), is_const)
          ELSE ReadReturn(ReadLoop(st0, is_const, len, datagram, fault), is_const)

\* MBufChain::Read(dst, len, datagram, actual).
Read(len, datagram, fault) == ReadHelper(FALSE, len, datagram, fault)

\* MBufChain::Peek(dst, len, datagram, actual) const.
Peek(len, datagram, fault) == ReadHelper(TRUE, len, datagram, fault)

\* MBufChain::is_full() and is_empty().
is_full == size_ >= kSizeMax

is_empty == size_ = 0

\* size that returns size_ whatever datagram is: a variant that
\* SizeOfFrontDatagram tells from the code.
sizeTotal(datagram) == size_

\* MBufChain::size(datagram).
size(datagram) == IF datagram /\ size_ # 0 THEN Front(buffers_).pkt_len_ ELSE size_

\* The bytes of a list of MBufs, front first.
RECURSIVE Bytes(_)
Bytes(bufs) == IF bufs = <<>> THEN <<>> ELSE Front(bufs).data_ \o Bytes(Tail(bufs))

\* The bytes of a list of datagrams, oldest first.
RECURSIVE Concat(_)
Concat(seqs) == IF seqs = <<>> THEN <<>> ELSE Head(seqs) \o Concat(Tail(seqs))

\* The datagrams of a list of MBufs: the MBufs that start one.
NumDatagrams(bufs) == Cardinality({i \in 1 .. Len(bufs) : bufs[i].pkt_len_ # 0})

\* A list of MBufs is whole datagrams one after another: the front MBuf
\* starts a datagram of pkt_len_ bytes, the MBufs the datagram needs beyond
\* the first follow it with pkt_len_ 0, their len_ sum to the pkt_len_, and
\* the rest of the list is whole datagrams.
RECURSIVE IsWholeDatagrams(_)
IsWholeDatagrams(bufs) ==
    \/ bufs = <<>>
    \/ /\ Front(bufs).pkt_len_ > 0
       /\ NumBuffersForPayload(Front(bufs).pkt_len_) <= Len(bufs)
       /\ \A i \in 2 .. NumBuffersForPayload(Front(bufs).pkt_len_) : bufs[i].pkt_len_ = 0
       /\ SumLen(Take(bufs, NumBuffersForPayload(Front(bufs).pkt_len_)))
              = Front(bufs).pkt_len_
       /\ IsWholeDatagrams(Drop(bufs, NumBuffersForPayload(Front(bufs).pkt_len_)))

\* The logs without the prefix common to both.
RECURSIVE Elide(_, _)
Elide(w, r) ==
    IF w # <<>> /\ r # <<>> /\ Head(w) = Head(r) THEN Elide(Tail(w), Tail(r))
    ELSE [w |-> w, r |-> r]

\* The pages of a list in the order of the list, each once.
RECURSIVE PageOrder(_, _)
PageOrder(bufs, order) ==
    IF bufs = <<>> THEN order
    ELSE PageOrder(Tail(bufs),
                   IF \E i \in 1 .. Len(order) : order[i] = Front(bufs).page_
                   THEN order ELSE Append(order, Front(bufs).page_))

RECURSIVE Ascending(_)
Ascending(pages) ==
    IF pages = {} THEN <<>>
    ELSE LET p == CHOOSE q \in pages : \A o \in pages : q <= o
         IN  <<p>> \o Ascending(pages \ {p})

\* The chain never looks at the address of a page, so pages are
\* interchangeable, and a state is kept up to a renaming of the pages: the
\* pages of the chain become 1, 2, ... from the front, and the pages that are
\* out without being in the chain follow them.
Renaming(bufs, allocated) ==
    LET order == PageOrder(bufs, <<>>) \o Ascending(allocated \ PagesOf(bufs))
    IN  [p \in PagesOf(bufs) \cup allocated |->
            CHOOSE i \in 1 .. Len(order) : order[i] = p]

\* The chain and the Pmm take the state an operation left them in.
Commit(r) ==
    \E to \in {Renaming(r.buffers_, r.allocated)} :
        /\ buffers_' = [i \in 1 .. Len(r.buffers_) |->
                           [r.buffers_[i] EXCEPT !.page_ = to[r.buffers_[i].page_]]]
        /\ read_cursor_off_' = r.read_cursor_off_
        /\ size_' = r.size_
        /\ pmm_allocated' = {to[p] : p \in r.allocated}
        /\ pmm_bad_free' = (pmm_bad_free \/ r.bad_free)

\* The call just made, as its caller sees it.
Called(op, r) == [op |-> op, status |-> r.status, n |-> r.n, requested |-> r.requested]

\* What the environment may do to a call: the Pmm may refuse its request,
\* and otherwise one of its user copies may fault.  (A refused request and a
\* later fault are the refused request alone: the call copies nothing after it.)
Environment == {e \in [allocOk : BOOLEAN, fault : Faults] : e.allocOk \/ e.fault <= 1}

Init ==
    /\ mode \in {"stream", "datagram"}
    /\ buffers_ = <<>>
    /\ read_cursor_off_ = 0
    /\ size_ = 0
    /\ alive = TRUE
    /\ pmm_allocated = {}
    /\ pmm_bad_free = FALSE
    /\ last = [op |-> "MBufChain", status |-> ZX_OK, n |-> 0, requested |-> 0]
    /\ wlog = <<>>
    /\ rlog = <<>>
    /\ net = 0
    /\ dgrams = <<>>

DoWriteStream ==
    /\ alive
    /\ mode = "stream"
    /\ \E len \in Lengths, e \in Environment :
         \E src \in UserAddresses :
           \E r \in {WriteStream(src, len, e.allocOk, e.fault)} :
           \E logs \in {Elide(wlog \o UserBytes(src, r.n), rlog)} :
               /\ Commit(r)
               /\ last' = Called("WriteStream", r)
               /\ wlog' = logs.w
               /\ rlog' = logs.r
               /\ net' = net + r.n
    /\ UNCHANGED <<mode, alive, dgrams>>

DoWriteDatagram ==
    /\ alive
    /\ mode = "datagram"
    /\ \E len \in Lengths, e \in Environment :
         \E src \in UserAddresses :
           \E r \in {WriteDatagram(src, len, e.allocOk, e.fault)} :
               /\ Commit(r)
               /\ last' = Called("WriteDatagram", r)
               /\ dgrams' = IF r.status = ZX_OK THEN Append(dgrams, UserBytes(src, len))
                            ELSE dgrams
    /\ UNCHANGED <<mode, alive, wlog, rlog, net>>

DoRead ==
    /\ alive
    /\ \E len \in Lengths, fault \in Faults :
         \E r \in {Read(len, mode = "datagram", fault)} :
         \E logs \in {Elide(wlog, rlog \o r.bytes)} :
             /\ Commit(r)
             /\ last' = Called("Read", r)
             /\ IF mode = "stream"
                THEN /\ wlog' = logs.w
                     /\ rlog' = logs.r
                     /\ net' = net - r.n
                     /\ UNCHANGED dgrams
                ELSE /\ dgrams' = Drop(dgrams, Len(dgrams) - NumDatagrams(r.buffers_))
                     /\ UNCHANGED <<wlog, rlog, net>>
    /\ UNCHANGED <<mode, alive>>

DoPeek ==
    /\ alive
    /\ \E len \in Lengths, datagram \in BOOLEAN, fault \in Faults :
         \E r \in {Peek(len, datagram, fault)} :
             /\ Commit(r)
             /\ last' = Called("Peek", r)
    /\ UNCHANGED <<mode, alive, wlog, rlog, net, dgrams>>

\* MBufChain::~MBufChain(): FreeMBufs(ktl::move(buffers_)).
Destroy ==
    /\ alive
    /\ alive' = FALSE
    /\ LET freed == FreeMBufs(pmm_allocated, buffers_)
       IN  /\ pmm_allocated' = freed.allocated
           /\ pmm_bad_free' = (pmm_bad_free \/ freed.bad_free)
    /\ buffers_' = <<>>
    /\ last' = [op |-> "~MBufChain", status |-> ZX_OK, n |-> 0, requested |-> 0]
    /\ UNCHANGED <<mode, read_cursor_off_, size_, wlog, rlog, net, dgrams>>

Next == DoWriteStream \/ DoWriteDatagram \/ DoRead \/ DoPeek \/ Destroy

Spec == Init /\ [][Next]_vars

\* C1: whatever makes WriteDatagram return a status other than ZX_OK (its
\* checks of len, the Pmm refusing the pages, a user copy faulting on any
\* MBuf), the list of MBufs with their len_, pkt_len_ and data_, the read
\* cursor and size_ are what they were before the call, and *written is 0.
AtomicDatagramWrite ==
    alive =>
        \A len \in Lengths, src \in UserAddresses, e \in Environment :
            LET r == WriteDatagram(src, len, e.allocOk, e.fault)
            IN  r.status # ZX_OK =>
                    /\ r.buffers_ = buffers_
                    /\ r.read_cursor_off_ = read_cursor_off_
                    /\ r.size_ = size_
                    /\ r.n = 0

\* A WriteDatagram that asked for pages and lost a user copy, on a chain
\* that holds data.
AtomicDatagramWriteSeen ==
    /\ last.op = "WriteDatagram"
    /\ last.status = ZX_ERR_INVALID_ARGS
    /\ last.requested > 0
    /\ size_ > 0

\* C2: in every reachable state size_ is at most kSizeMax, and is_full() is
\* true exactly when size_ is kSizeMax.
SizeWithinCapacity ==
    /\ size_ <= kSizeMax
    /\ is_full <=> (size_ = kSizeMax)

\* A WriteStream turned away by a full chain.
SizeWithinCapacitySeen ==
    /\ is_full
    /\ last.op = "WriteStream"
    /\ last.status = ZX_ERR_SHOULD_WAIT

\* C3: on a stream the bytes the Reads have delivered, in order, are a prefix
\* of the bytes the WriteStreams have admitted, in order.
StreamFifo == mode = "stream" => IsPrefix(rlog, wlog)

\* A Read of a stream that delivered bytes and then lost a user copy, with
\* admitted bytes still to deliver.
StreamFifoSeen ==
    /\ mode = "stream"
    /\ last.op = "Read"
    /\ last.status = UserCopyError
    /\ last.n > 0
    /\ wlog # <<>>

\* C4: on a chain of datagrams that is not empty, a Read with datagram set
\* that returns ZX_OK, whatever len it is given, delivers the first
\* min(len, L) bytes of the oldest datagram, L being its length, and takes
\* the whole datagram out of the chain: size_ falls by L and the next
\* datagram is at the front.
DatagramReadConsumes ==
    (alive /\ mode = "datagram" /\ size_ # 0) =>
        \A len \in Lengths, fault \in AllFaults :
            LET r == Read(len, TRUE, fault)
            IN  r.status = ZX_OK =>
                    /\ r.n = Min(len, Len(Head(dgrams)))
                    /\ r.bytes = Take(Head(dgrams), r.n)
                    /\ r.size_ = size_ - Len(Head(dgrams))
                    /\ NumDatagrams(r.buffers_) = Len(dgrams) - 1

\* C5: on a stream size_ is the sum of the *written of the WriteStreams less
\* the sum of the *actual of the Reads, whatever the calls returned; a Peek
\* leaves the balance alone.
StreamConservation == mode = "stream" => size_ = net

\* A WriteStream that admitted bytes and then lost a user copy.
StreamConservationSeen ==
    /\ mode = "stream"
    /\ last.op = "WriteStream"
    /\ last.status = UserCopyError
    /\ last.n > 0

\* C6: a Peek, whatever its len and datagram and whichever of its user copies
\* faults, leaves the list of MBufs with their len_, pkt_len_ and data_, the
\* read cursor and size_ as they were and frees no page; so a second Peek
\* with the same arguments is the same call on the same state.
PeekNeverMutates ==
    alive =>
        \A len \in Lengths, datagram \in BOOLEAN, fault \in AllFaults :
            LET r == Peek(len, datagram, fault)
            IN  /\ r.buffers_ = buffers_
                /\ r.read_cursor_off_ = read_cursor_off_
                /\ r.size_ = size_
                /\ r.allocated = pmm_allocated
                /\ ~r.bad_free

\* A Peek that lost a user copy after delivering bytes, on a chain whose
\* read cursor is inside the front MBuf.
PeekNeverMutatesSeen ==
    /\ last.op = "Peek"
    /\ last.status = UserCopyError
    /\ last.n > 0
    /\ read_cursor_off_ > 0

\* C7: on the same state, with the same len and datagram and the same user
\* copies faulting, Peek and Read return the same status, the same *actual
\* and the same bytes.
PeekSameAsRead ==
    alive =>
        \A len \in Lengths, datagram \in BOOLEAN, fault \in AllFaults :
            LET p == Peek(len, datagram, fault)
                r == Read(len, datagram, fault)
            IN  /\ p.status = r.status
                /\ p.n = r.n
                /\ p.bytes = r.bytes

\* A Peek that started inside the front MBuf and went on into the next one.
PeekSameAsReadSeen ==
    /\ last.op = "Peek"
    /\ last.status = ZX_OK
    /\ read_cursor_off_ > 0
    /\ Len(buffers_) >= 2
    /\ last.n > Front(buffers_).len_ - read_cursor_off_

\* C8: between calls the pages out of the Pmm are the pages of the MBufs of
\* the chain, one page to an MBuf, no page has been freed that was not out,
\* and once the chain is destroyed no page is out.
PagesAccounted ==
    /\ ~pmm_bad_free
    /\ alive => /\ pmm_allocated = PagesOf(buffers_)
                /\ Cardinality(PagesOf(buffers_)) = Len(buffers_)
    /\ ~alive => pmm_allocated = {}

\* A chain destroyed with data in it.
PagesAccountedSeen ==
    /\ ~alive
    /\ last.op = "~MBufChain"
    /\ size_ > 0

\* C9 as stated: a WriteStream or WriteDatagram of len bytes with
\* size_ + len > kSizeMax returns ZX_ERR_SHOULD_WAIT with *written 0 and adds
\* no byte to the chain.
OverCapacityDenied ==
    alive =>
        \A len \in Lengths, src \in UserAddresses, e \in Environment :
            size_ + len > kSizeMax =>
                LET d == WriteDatagram(src, len, e.allocOk, e.fault)
                    s == WriteStream(src, len, e.allocOk, e.fault)
                IN  /\ d.status = ZX_ERR_SHOULD_WAIT /\ d.n = 0 /\ d.size_ = size_
                    /\ s.status = ZX_ERR_SHOULD_WAIT /\ s.n = 0 /\ s.size_ = size_

\* C9: with size_ + len > kSizeMax, a WriteDatagram is denied with *written 0
\* and the chain as it was, by ZX_ERR_OUT_OF_RANGE if len > kSizeMax and by
\* ZX_ERR_SHOULD_WAIT otherwise; a WriteStream admits no more than the
\* kSizeMax - size_ bytes there is room for, and all of them if the Pmm gives
\* the pages and no user copy faults, returns ZX_OK only if it admitted a
\* byte, and ZX_ERR_SHOULD_WAIT only with *written 0.
OverCapacityWrite ==
    alive =>
        \A len \in Lengths, src \in UserAddresses, e \in Environment :
            size_ + len > kSizeMax =>
                LET d == WriteDatagram(src, len, e.allocOk, e.fault)
                    s == WriteStream(src, len, e.allocOk, e.fault)
                IN  /\ d.status = IF len > kSizeMax THEN ZX_ERR_OUT_OF_RANGE
                                  ELSE ZX_ERR_SHOULD_WAIT
                    /\ d.n = 0
                    /\ d.buffers_ = buffers_
                    /\ d.size_ = size_
                    /\ s.n <= kSizeMax - size_
                    /\ s.size_ = size_ + s.n
                    /\ (e.allocOk /\ e.fault = 0) => s.n = kSizeMax - size_
                    /\ s.status = ZX_OK => s.n > 0
                    /\ s.status = ZX_ERR_SHOULD_WAIT => s.n = 0
                    /\ s.status \in {ZX_OK, ZX_ERR_SHOULD_WAIT, UserCopyError}

\* A WriteDatagram that fits an empty chain and was turned away, before any
\* page was asked for, by one that holds data.
OverCapacityWriteSeen ==
    /\ last.op = "WriteDatagram"
    /\ last.status = ZX_ERR_SHOULD_WAIT
    /\ last.requested = 0
    /\ size_ > 0
    /\ ~is_full

\* C10: a WriteDatagram of no bytes returns ZX_ERR_INVALID_ARGS with *written
\* 0 in every state of the chain, asks the Pmm for no page and leaves the
\* chain as it was.
ZeroLengthDatagram ==
    alive =>
        \A src \in UserAddresses, e \in Environment :
            LET r == WriteDatagram(src, 0, e.allocOk, e.fault)
            IN  /\ r.status = ZX_ERR_INVALID_ARGS
                /\ r.n = 0
                /\ r.requested = 0
                /\ r.buffers_ = buffers_
                /\ r.read_cursor_off_ = read_cursor_off_
                /\ r.size_ = size_
                /\ r.allocated = pmm_allocated

\* A WriteDatagram of no bytes on a full chain.
ZeroLengthDatagramSeen ==
    /\ last.op = "WriteDatagram"
    /\ last.status = ZX_ERR_INVALID_ARGS
    /\ last.requested = 0
    /\ is_full

\* C11: in every state of the chain, a full one included, a WriteDatagram of
\* len > kSizeMax returns ZX_ERR_OUT_OF_RANGE, never ZX_ERR_SHOULD_WAIT, and
\* one of 0 < len <= kSizeMax with len + size_ > kSizeMax returns
\* ZX_ERR_SHOULD_WAIT; both with *written 0, no page asked for and the chain
\* as it was; and a datagram with len + size_ = kSizeMax passes the checks:
\* its pages are asked for, and it is written if the Pmm gives them and no
\* user copy faults.
DatagramAdmissionOrdered ==
    alive =>
        \A len \in Lengths \ {0}, src \in UserAddresses, e \in Environment :
            LET r == WriteDatagram(src, len, e.allocOk, e.fault)
            IN  /\ len + size_ > kSizeMax =>
                    /\ r.status = IF len > kSizeMax THEN ZX_ERR_OUT_OF_RANGE
                                  ELSE ZX_ERR_SHOULD_WAIT
                    /\ r.n = 0
                    /\ r.requested = 0
                    /\ r.allocated = pmm_allocated
                    /\ r.buffers_ = buffers_
                    /\ r.read_cursor_off_ = read_cursor_off_
                    /\ r.size_ = size_
                /\ len + size_ = kSizeMax =>
                    /\ r.requested = NumBuffersForPayload(len)
                    /\ (e.allocOk /\ e.fault = 0) =>
                           (r.status = ZX_OK /\ r.n = len /\ r.size_ = kSizeMax)

\* A WriteDatagram too large for any chain, turned away by a full one.
DatagramAdmissionOrderedSeen ==
    /\ last.op = "WriteDatagram"
    /\ last.status = ZX_ERR_OUT_OF_RANGE
    /\ is_full

\* C12: on a chain of datagrams, a Read with datagram set that loses a user
\* copy, at whichever MBuf of the front datagram, returns the copy's error
\* with *actual the bytes delivered before the fault, takes every MBuf of
\* the front datagram out of the chain and frees it, lowers size_ by the
\* datagram's pkt_len_, and leaves the later datagrams as they were.
DatagramReadFault ==
    (alive /\ mode = "datagram" /\ size_ # 0) =>
        \A len \in Lengths, fault \in AllFaults :
            LET r == Read(len, TRUE, fault)
                L == Front(buffers_).pkt_len_
            IN  r.status # ZX_OK =>
                    /\ r.status = UserCopyError
                    /\ r.n = (fault - 1) * kPayloadSize
                    /\ r.bytes = Take(Head(dgrams), r.n)
                    /\ r.buffers_ = Drop(buffers_, NumBuffersForPayload(L))
                    /\ r.allocated = PagesOf(r.buffers_)
                    /\ ~r.bad_free
                    /\ r.size_ = size_ - L
                    /\ r.read_cursor_off_ = 0

\* A Read of a datagram that delivered bytes and then lost a user copy, with
\* a later datagram left in the chain.
DatagramReadFaultSeen ==
    /\ mode = "datagram"
    /\ last.op = "Read"
    /\ last.status = UserCopyError
    /\ last.n > 0
    /\ size_ > 0
\* C13: a WriteStream that loses a user copy returns the copy's error; the
\* MBufs its earlier copies filled stay at the back of the chain, *written is
\* the number of bytes the call added (size_ after less size_ before), the
\* MBuf whose copy faulted keeps its len_ if it is the tail and is not
\* appended if it is new, and every page the call got and did not append is
\* back with the Pmm.
StreamWriteFault ==
    alive =>
        \A len \in Lengths, src \in UserAddresses, e \in Environment :
            LET r == WriteStream(src, len, e.allocOk, e.fault)
            IN  r.status \notin {ZX_OK, ZX_ERR_SHOULD_WAIT} =>
                    /\ r.status = UserCopyError
                    /\ r.n = r.size_ - size_
                    /\ Bytes(r.buffers_) = Bytes(buffers_) \o UserBytes(src, r.n)
                    /\ Len(r.buffers_) >= Len(buffers_)
                    /\ \A i \in 1 .. (Len(buffers_) - 1) : r.buffers_[i] = buffers_[i]
                    /\ e.fault = 1 => r.buffers_ = buffers_
                    /\ \A i \in (Len(buffers_) + 1) .. Len(r.buffers_) :
                           r.buffers_[i].len_ = kPayloadSize
                    /\ r.read_cursor_off_ = read_cursor_off_
                    /\ r.allocated = pmm_allocated \cup PagesOf(r.buffers_)
                    /\ Cardinality(r.allocated) =
                           Cardinality(pmm_allocated) + Len(r.buffers_) - Len(buffers_)
                    /\ ~r.bad_free

\* A WriteStream that added bytes to the chain and then lost the copy into a
\* new MBuf.
StreamWriteFaultSeen ==
    /\ last.op = "WriteStream"
    /\ last.status = UserCopyError
    /\ last.n > 0
    /\ last.requested > 0

\* C14: a WriteDatagram that loses a user copy, on whichever of its pages,
\* returns ZX_ERR_INVALID_ARGS with *written 0, not the copy's error, and
\* every page the Pmm gave the call is back with it when the call returns.
DatagramFaultRollsBack ==
    alive =>
        \A len \in Lengths, src \in UserAddresses, fault \in Faults :
            LET r == WriteDatagram(src, len, TRUE, fault)
            IN  (DatagramAdmission(len) = ZX_OK
                   /\ fault \in 1 .. NumBuffersForPayload(len)) =>
                    /\ r.status = ZX_ERR_INVALID_ARGS
                    /\ r.status # UserCopyError
                    /\ r.n = 0
                    /\ r.requested = NumBuffersForPayload(len)
                    /\ r.allocated = pmm_allocated
                    /\ ~r.bad_free

\* A WriteDatagram of more than one page that lost a user copy.
DatagramFaultRollsBackSeen ==
    /\ last.op = "WriteDatagram"
    /\ last.status = ZX_ERR_INVALID_ARGS
    /\ last.requested >= 2

\* C15: on a chain of datagrams size(true) is the length of the oldest
\* datagram written and not yet read, and 0 when there is none; on a stream
\* size(true) is 0 in every state; size(false) is the number of bytes in
\* the chain that have not been read.
SizeOfFrontDatagram ==
    alive =>
        /\ mode = "datagram" =>
               /\ size(TRUE) = IF dgrams = <<>> THEN 0 ELSE Len(Head(dgrams))
               /\ size(FALSE) = Len(Concat(dgrams))
        /\ mode = "stream" =>
               /\ size(TRUE) = 0
               /\ size(FALSE) = Len(wlog) - Len(rlog)
        /\ size(FALSE) = Len(Bytes(buffers_)) - read_cursor_off_

\* A chain of two datagrams of different lengths, the shorter in front, left
\* by a Read that took the datagram before them.
SizeOfFrontDatagramSeen ==
    /\ mode = "datagram"
    /\ last.op = "Read"
    /\ last.n > 0
    /\ Len(dgrams) >= 2
    /\ Len(dgrams[1]) < Len(dgrams[2])
\* C16 as stated: whenever WriteStream returns ZX_OK, *written is
\* min(len, kSizeMax - size_) and size_ has grown by that much.
StreamWriteOkClamped ==
    alive =>
        \A len \in Lengths, src \in UserAddresses, e \in Environment :
            LET r == WriteStream(src, len, e.allocOk, e.fault)
            IN  r.status = ZX_OK =>
                    /\ r.n = Min(len, kSizeMax - size_)
                    /\ r.size_ = size_ + Min(len, kSizeMax - size_)

\* C16: whenever WriteStream returns ZX_OK, *written is at least 1 and at
\* most min(len, kSizeMax - size_), size_ has grown by *written, and *written
\* is min(len, kSizeMax - size_) unless the Pmm refused the pages, when it is
\* what went into the tail.
StreamWriteOk ==
    alive =>
        \A len \in Lengths, src \in UserAddresses, e \in Environment :
            LET r == WriteStream(src, len, e.allocOk, e.fault)
            IN  r.status = ZX_OK =>
                    /\ r.n >= 1
                    /\ r.n <= Min(len, kSizeMax - size_)
                    /\ r.size_ = size_ + r.n
                    /\ e.allocOk => r.n = Min(len, kSizeMax - size_)
                    /\ ~e.allocOk =>
                           r.n = Min(Min(len, kSizeMax - size_), rem(Back(buffers_)))

\* A WriteStream of two pages that filled the chain.
StreamWriteOkSeen ==
    /\ last.op = "WriteStream"
    /\ last.status = ZX_OK
    /\ last.requested = 2
    /\ last.n = kSizeMax
    /\ is_full

\* C17: a WriteStream that loses no user copy returns ZX_ERR_SHOULD_WAIT
\* exactly when *written is 0 and ZX_OK exactly when it is more; with len > 0
\* on a chain with size_ = kSizeMax it returns ZX_ERR_SHOULD_WAIT with
\* *written 0; and whenever it returns ZX_ERR_SHOULD_WAIT the list of MBufs
\* with their len_, the read cursor and size_ are as they were and the call
\* holds no page.
StreamShouldWait ==
    alive =>
        \A len \in Lengths, src \in UserAddresses, e \in Environment :
            LET r == WriteStream(src, len, e.allocOk, e.fault)
            IN  /\ r.status # UserCopyError =>
                    /\ r.status \in {ZX_OK, ZX_ERR_SHOULD_WAIT}
                    /\ r.status = ZX_ERR_SHOULD_WAIT <=> r.n = 0
                    /\ r.status = ZX_OK <=> r.n > 0
                    /\ (len > 0 /\ size_ = kSizeMax) =>
                           (r.status = ZX_ERR_SHOULD_WAIT /\ r.n = 0)
                /\ r.status = ZX_ERR_SHOULD_WAIT =>
                    /\ r.buffers_ = buffers_
                    /\ r.read_cursor_off_ = read_cursor_off_
                    /\ r.size_ = size_
                    /\ r.allocated = pmm_allocated
                    /\ ~r.bad_free

\* A WriteStream turned away by the Pmm, on a chain that holds data and has
\* room.
StreamShouldWaitSeen ==
    /\ last.op = "WriteStream"
    /\ last.status = ZX_ERR_SHOULD_WAIT
    /\ last.requested > 0
    /\ size_ > 0
    /\ ~is_full
\* C18: after every operation, whatever it returned, size_ is the sum of
\* the len_ of the MBufs of the chain less the read cursor; and a Read leaves
\* it so whichever way its datagram is set.
SizeIsSumOfLen ==
    alive =>
        /\ size_ = SumLen(buffers_) - read_cursor_off_
        /\ \A len \in Lengths, datagram \in BOOLEAN, fault \in AllFaults :
               LET r == Read(len, datagram, fault)
               IN  r.size_ = SumLen(r.buffers_) - r.read_cursor_off_

\* A Read that stopped inside an MBuf with more MBufs behind it.
SizeIsSumOfLenSeen ==
    /\ last.op = "Read"
    /\ read_cursor_off_ > 0
    /\ Len(buffers_) >= 2

\* C19: on a chain of datagrams, whatever the calls returned, the read
\* cursor is 0 and the chain is whole datagrams one after another: the front
\* MBuf has pkt_len_ > 0, and an MBuf with pkt_len_ = L > 0 is followed by
\* exactly ceil(L / kPayloadSize) - 1 MBufs with pkt_len_ 0, the len_ of them
\* all summing to L.
WholeDatagrams ==
    (alive /\ mode = "datagram") =>
        /\ read_cursor_off_ = 0
        /\ IsWholeDatagrams(buffers_)

\* A datagram of more than one MBuf at the front of the chain, left by a
\* Read of the datagram before it that lost a user copy.
WholeDatagramsSeen ==
    /\ mode = "datagram"
    /\ last.op = "Read"
    /\ last.status = UserCopyError
    /\ Len(buffers_) >= 2
    /\ buffers_[2].pkt_len_ = 0

\* C20: a WriteStream whose request the Pmm refuses adds no MBuf to the
\* chain; it returns ZX_OK with *written the bytes it copied into the tail
\* that was there if that is more than 0, and otherwise
\* ZX_ERR_SHOULD_WAIT with *written 0 and the chain as it was.
StreamAllocFails ==
    alive =>
        \A len \in Lengths, src \in UserAddresses, fault \in {0, 1} :
            LET r == WriteStream(src, len, FALSE, fault)
                tail == IF buffers_ = <<>> THEN 0
                        ELSE Min(rem(Back(buffers_)), Min(len, kSizeMax - size_))
            IN  r.requested > 0 =>
                    /\ Len(r.buffers_) = Len(buffers_)
                    /\ r.allocated = pmm_allocated
                    /\ r.n = tail
                    /\ r.size_ = size_ + tail
                    /\ Bytes(r.buffers_) = Bytes(buffers_) \o UserBytes(src, tail)
                    /\ r.read_cursor_off_ = read_cursor_off_
                    /\ r.status = IF tail > 0 THEN ZX_OK ELSE ZX_ERR_SHOULD_WAIT
                    /\ tail = 0 => r.buffers_ = buffers_

\* A WriteStream that filled the tail of a chain of one MBuf and returned
\* ZX_OK, the Pmm having refused the page it asked for.
StreamAllocFailsSeen ==
    /\ last.op = "WriteStream"
    /\ last.status = ZX_OK
    /\ last.requested > 0
    /\ Len(buffers_) = 1
    /\ last.n < size_
\* C21: after every operation size_ is 0 exactly when the chain has no MBuf,
\* and then no page is out; is_empty() is true exactly when the chain has no
\* MBuf.
EmptyIffNoMBuf ==
    alive =>
        /\ size_ = 0 <=> buffers_ = <<>>
        /\ is_empty <=> buffers_ = <<>>
        /\ size_ = 0 => pmm_allocated = {}

\* A Read that took the last bytes out of the chain.
EmptyIffNoMBufSeen ==
    /\ alive
    /\ last.op = "Read"
    /\ last.status = ZX_OK
    /\ last.n > 0
    /\ size_ = 0

\* C22: after every operation every MBuf of the chain has len_ >= 1, the
\* read cursor is less than the len_ of the front MBuf when there is one, and
\* the read cursor is 0 when the chain has no MBuf.
NoEmptyMBuf ==
    alive =>
        /\ \A i \in 1 .. Len(buffers_) : buffers_[i].len_ >= 1
        /\ buffers_ # <<>> => read_cursor_off_ < Front(buffers_).len_
        /\ buffers_ = <<>> => read_cursor_off_ = 0

\* A WriteStream that lost the copy into its first new MBuf and added nothing.
NoEmptyMBufSeen ==
    /\ last.op = "WriteStream"
    /\ last.status = UserCopyError
    /\ last.n = 0
    /\ last.requested > 0

\* C23: on a stream, whatever the calls returned, every MBuf but the tail
\* has len_ = kPayloadSize, so the chain has exactly
\* ceil((size_ + read_cursor_off_) / kPayloadSize) MBufs, which is at most one
\* more than kSizeMax / kPayloadSize (129 for the 128 payloads of mbuf.h).
StreamMBufsFull ==
    (alive /\ mode = "stream") =>
        /\ \A i \in 1 .. (Len(buffers_) - 1) : buffers_[i].len_ = kPayloadSize
        /\ Len(buffers_) = IF size_ + read_cursor_off_ = 0 THEN 0
                           ELSE NumBuffersForPayload(size_ + read_cursor_off_)
        /\ Len(buffers_) <= (kSizeMax \div kPayloadSize) + 1

\* A stream with one MBuf more than kSizeMax / kPayloadSize: a full chain
\* whose front MBuf is partly read and whose tail is partly filled.
StreamMBufsFullSeen ==
    /\ mode = "stream"
    /\ Len(buffers_) = (kSizeMax \div kPayloadSize) + 1
    /\ read_cursor_off_ > 0
    /\ rem(Back(buffers_)) > 0

\* C24: a Read with datagram set, of a chain that is not empty and holds
\* only stream data (every MBuf has pkt_len_ 0), discards no byte: it
\* returns ZX_OK with *actual 0 and leaves size_ and the MBufs as they were.
StreamKeptByDatagramRead ==
    (alive /\ mode = "stream" /\ size_ # 0) =>
        \A len \in Lengths, fault \in AllFaults :
            LET r == Read(len, TRUE, fault)
            IN  /\ r.status = ZX_OK
                /\ r.n = 0
                /\ r.size_ = size_
                /\ r.buffers_ = buffers_
                /\ r.read_cursor_off_ = read_cursor_off_
====
